---- MODULE Spec2Model ----
(***************************************************************************)
(* Gate-level arithmetic circuit synthesizer (circuit.js).                 *)
(*                                                                         *)
(* The netlist C is a sequence of gates; a gate is the tuple               *)
(* <<name, operand, ...>> exactly as the JavaScript array [name, ...args]. *)
(* Wire indices are 0-based as in the source: wire w is C[w + 1].          *)
(***************************************************************************)
EXTENDS Integers, Sequences, FiniteSets, TLC

\* Largest n handed to inputs(C, name, n).
MaxWidth == 5

\* Number of primary inputs allocated on one netlist.
MaxInputs == 6

\* Number of public calls made on one shared netlist.
MaxCalls == 3

\* Only calls that leave the netlist no longer than this are followed.
MaxGates == 20

\* Columns handed to compress when its loop is followed step by step:
\* at most MaxCols columns of at most MaxColLen wires each.
MaxCols == 2

MaxColLen == 3

\* JavaScript's undefined: the value of `let s, c;` never assigned, and of
\* an array read out of range.  It is no wire index.
Undefined == -1

VARIABLES
    C,        \* the netlist: Array<Array<any>>
    va,       \* array held by the caller (result of inputs(C, 'a', n))
    vb,       \* array held by the caller (result of inputs(C, 'b', n))
    out,      \* array last returned by adder / popcount / multiplier / compress
    call,     \* record of the last call: arguments before and after, netlist before,
              \* and whether every call so far was given proper bit arguments
    ncalls,   \* number of calls made so far
    pc,       \* "idle", or "compress" while the loop of compress is running
    bits,     \* compress: the working list of columns
    outputs,  \* compress: the outputs collected so far
    done      \* compress: the column arrays already shifted out of bits

vars == <<C, va, vb, out, call, ncalls, pc, bits, outputs, done>>

Names == {"a", "b"}

Regs == {"a", "b", "out"}

\* `${name}${i}`
InputLabel(name, i) ==
    IF name = "a"
    THEN <<"a0", "a1", "a2", "a3", "a4", "a5", "a6", "a7">>[i + 1]
    ELSE <<"b0", "b1", "b2", "b3", "b4", "b5", "b6", "b7">>[i + 1]

IsWire(net, w) == w \in 0 .. (Len(net) - 1)

(***************************************************************************)
(* Cost metrics                                                            *)
(***************************************************************************)
RECURSIVE count_xaig(_)
count_xaig(net) ==
    IF net = <<>> THEN 0
    ELSE (IF Len(Head(net)) >= 3 THEN 1 ELSE 0) + count_xaig(Tail(net))

RECURSIVE count_aig_xor2(_)
count_aig_xor2(net) ==
    IF net = <<>> THEN 0
    ELSE (IF Len(Head(net)) >= 3
          THEN (IF Head(net)[1] = "xor" THEN 2 ELSE 1)
          ELSE 0) + count_aig_xor2(Tail(net))

RECURSIVE count_aig(_)
count_aig(net) ==
    IF net = <<>> THEN 0
    ELSE (IF Len(Head(net)) >= 3
          THEN (IF Head(net)[1] = "xor" THEN 3 ELSE 1)
          ELSE 0) + count_aig(Tail(net))

(***************************************************************************)
(* Gate builders                                                           *)
(***************************************************************************)
\* C.push(g); return C.length   (index one too large)
gate_offbyone(net, g) ==
    [C |-> Append(net, g), w |-> Len(Append(net, g))]

\* C.push([name, ...args]); return C.length - 1
gate(net, g) ==
    [C |-> Append(net, g), w |-> Len(Append(net, g)) - 1]

\* carry computed with 'or' in place of 'and'
halfadder_orcarry(net, x, y) ==
    LET g1 == gate(net, <<"xor", x, y>>)
        g2 == gate(g1.C, <<"or", x, y>>)
    IN  [C |-> g2.C, s |-> g1.w, c |-> g2.w]

halfadder(net, x, y) ==
    LET g1 == gate(net, <<"xor", x, y>>)
        g2 == gate(g1.C, <<"and", x, y>>)
    IN  [C |-> g2.C, s |-> g1.w, c |-> g2.w]

\* carry-out computed with 'and' in place of 'or'
fulladder_andcarry(net, x, y, z) ==
    LET h1 == halfadder(net, x, y)
        h2 == halfadder(h1.C, h1.s, z)
        g  == gate(h2.C, <<"and", h1.c, h2.c>>)
    IN  [C |-> g.C, s |-> h2.s, c |-> g.w]

fulladder(net, x, y, z) ==
    LET h1 == halfadder(net, x, y)
        h2 == halfadder(h1.C, h1.s, z)
        g  == gate(h2.C, <<"or", h1.c, h2.c>>)
    IN  [C |-> g.C, s |-> h2.s, c |-> g.w]

(***************************************************************************)
(* compress: one iteration of `while (bits.length > 0)`, on the record     *)
(* st = [C, bits, outputs, done].  done keeps the column arrays that       *)
(* bits.shift() removed, so that their final contents stay observable      *)
(* (popcount hands the caller's own array in as column 0).                 *)
(***************************************************************************)
\* the one-wire case forgets both the push and the shift
CompressStep_noshift(st) ==
    LET col == st.bits[1] IN
    IF Len(col) = 1 THEN st
    ELSE
        LET r == IF Len(col) >= 3 THEN fulladder(st.C, col[1], col[2], col[3])
                 ELSE IF Len(col) = 2 THEN halfadder(st.C, col[1], col[2])
                 ELSE [C |-> st.C, s |-> Undefined, c |-> Undefined]
            rest == IF Len(col) >= 3 THEN SubSeq(col, 4, Len(col))
                    ELSE IF Len(col) = 2 THEN <<>>
                    ELSE col
            col0 == Append(rest, r.s)
        IN  [st EXCEPT
                !.C = r.C,
                !.bits = IF Len(st.bits) = 1
                         THEN <<col0, <<r.c>>>>
                         ELSE <<col0, Append(st.bits[2], r.c)>>
                              \o SubSeq(st.bits, 3, Len(st.bits))]

CompressStep(st) ==
    LET col == st.bits[1] IN
    IF Len(col) = 1
    THEN \* outputs.push(bits.shift()[0]); continue
        [st EXCEPT !.outputs = Append(@, col[1]),
                   !.bits = Tail(@),
                   !.done = Append(@, col)]
    ELSE
        LET r == IF Len(col) >= 3 THEN fulladder(st.C, col[1], col[2], col[3])
                 ELSE IF Len(col) = 2 THEN halfadder(st.C, col[1], col[2])
                 ELSE [C |-> st.C, s |-> Undefined, c |-> Undefined]
            \* splice(0, 3) / splice(0, 2) / nothing removed
            rest == IF Len(col) >= 3 THEN SubSeq(col, 4, Len(col))
                    ELSE IF Len(col) = 2 THEN <<>>
                    ELSE col
            \* bits[0].push(s)
            col0 == Append(rest, r.s)
        IN  [st EXCEPT
                !.C = r.C,
                !.bits = IF Len(st.bits) = 1
                         THEN <<col0, <<r.c>>>>
                         ELSE <<col0, Append(st.bits[2], r.c)>>
                              \o SubSeq(st.bits, 3, Len(st.bits))]

RECURSIVE CompressLoop(_)
CompressLoop(st) ==
    IF Len(st.bits) > 0 THEN CompressLoop(CompressStep(st)) ELSE st

compress(net, cols) ==
    CompressLoop([C |-> net, bits |-> cols, outputs |-> <<>>, done |-> <<>>])

(***************************************************************************)
(* Public operators.  Each returns the record                              *)
(*   [C, out, err, a, b, land]:                                            *)
(* the netlist after the call, the returned array, whether the call threw, *)
(* the contents after the call of the two array objects the caller passed, *)
(* and the columns handed to compress.                                     *)
(***************************************************************************)
RECURSIVE inputsFrom(_, _, _, _, _)
inputsFrom(net, name, i, n, acc) ==
    IF i >= n THEN [C |-> net, out |-> acc]
    ELSE LET g == gate(net, <<InputLabel(name, i)>>)
         IN  inputsFrom(g.C, name, i + 1, n, Append(acc, g.w))

inputs(net, name, n) == inputsFrom(net, name, 0, n, <<>>)

\* bits_a.map((a, i) => [a, bits_b[i]]) with no length check:
\* bits_b[i] reads undefined past the end of bits_b
adder_nocheck(net, bits_a, bits_b) ==
    LET land == [i \in 1 .. Len(bits_a) |->
                    <<bits_a[i],
                      IF i <= Len(bits_b) THEN bits_b[i] ELSE Undefined>>]
        f == compress(net, land)
    IN  [C |-> f.C, out |-> f.outputs, err |-> FALSE,
         a |-> bits_a, b |-> bits_b, land |-> land]

adder(net, bits_a, bits_b) ==
    IF Len(bits_a) # Len(bits_b)
    THEN [C |-> net, out |-> <<>>, err |-> TRUE,
          a |-> bits_a, b |-> bits_b, land |-> <<>>]
    ELSE LET land == [i \in 1 .. Len(bits_a) |-> <<bits_a[i], bits_b[i]>>]
             f == compress(net, land)
         IN  [C |-> f.C, out |-> f.outputs, err |-> FALSE,
              a |-> bits_a, b |-> bits_b, land |-> land]

\* compress(C, [bits.slice(1)]): the first bit is left out
popcount_dropfirst(net, bs) ==
    LET rest == SubSeq(bs, 2, Len(bs))
        f == compress(net, <<rest>>)
    IN  [C |-> f.C, out |-> f.outputs, err |-> FALSE,
         a |-> bs, b |-> <<>>, land |-> <<rest>>]

\* compress(C, [bits]): column 0 is the caller's array itself, so what
\* compress leaves in that array is what the caller holds afterwards.
popcount(net, bs) ==
    LET f == compress(net, <<bs>>)
    IN  [C |-> f.C, out |-> f.outputs, err |-> FALSE,
         a |-> f.done[1], b |-> <<>>, land |-> <<bs>>]

Max(x, y) == IF x >= y THEN x ELSE y

Min(x, y) == IF x <= y THEN x ELSE y

\* the partial product is built with 'or' in place of 'and'
MulBody_orproduct(st, d, i) ==
    LET j == d - i
        a == st.bits_a[i + 1]
        b == st.bits_b[j + 1]
    IN  IF ~IsWire(st.C, a) THEN [st EXCEPT !.err = TRUE]
        ELSE
        LET ga == gate(st.C, <<st.C[a + 1][1], a>>) IN
        IF ~IsWire(ga.C, b)
        THEN [st EXCEPT !.C = ga.C, !.bits_a[i + 1] = ga.w, !.err = TRUE]
        ELSE
        LET gb == gate(ga.C, <<ga.C[b + 1][1], b>>)
            gp == gate(gb.C, <<"or", ga.w, gb.w>>)
        IN  [st EXCEPT !.C = gp.C,
                       !.bits_a[i + 1] = ga.w,
                       !.bits_b[j + 1] = gb.w,
                       !.land[d + 1] = Append(@, gp.w)]

\* The body of the inner loop of multiplier, on the record
\* st = [C, bits_a, bits_b, land, err]; bits_a and bits_b are the copies.
\* C[a][0] throws a TypeError when a is undefined.
MulBody(st, d, i) ==
    LET j == d - i
        a == st.bits_a[i + 1]
        b == st.bits_b[j + 1]
    IN  IF ~IsWire(st.C, a) THEN [st EXCEPT !.err = TRUE]
        ELSE
        LET ga == gate(st.C, <<st.C[a + 1][1], a>>) IN
        IF ~IsWire(ga.C, b)
        THEN [st EXCEPT !.C = ga.C, !.bits_a[i + 1] = ga.w, !.err = TRUE]
        ELSE
        LET gb == gate(ga.C, <<ga.C[b + 1][1], b>>)
            gp == gate(gb.C, <<"and", ga.w, gb.w>>)
        IN  [st EXCEPT !.C = gp.C,
                       !.bits_a[i + 1] = ga.w,
                       !.bits_b[j + 1] = gb.w,
                       !.land[d + 1] = Append(@, gp.w)]

\* for (d ...) { for (i = start_i; i < end_i; i++) ... }
RECURSIVE MulLoop(_, _, _)
MulLoop(st, d, i) ==
    LET na == Len(st.bits_a)
        nb == Len(st.bits_b)
    IN  IF st.err \/ d >= na + nb - 1 THEN st
        ELSE IF i >= Min(na, d + 1)
        THEN MulLoop(st, d + 1, Max(0, (d + 1) - nb + 1))
        ELSE MulLoop(MulBody(st, d, i), d, i + 1)

multiplier(net, bits_a, bits_b) ==
    LET na == Len(bits_a)
        nb == Len(bits_b)
        m  == MulLoop([C |-> net, bits_a |-> bits_a, bits_b |-> bits_b,
                       land |-> [d \in 1 .. Max(0, na + nb - 1) |-> <<>>],
                       err |-> FALSE],
                      0, Max(0, 0 - nb + 1))
    IN  IF m.err
        THEN [C |-> m.C, out |-> <<>>, err |-> TRUE,
              a |-> bits_a, b |-> bits_b, land |-> <<>>]
        ELSE LET f == compress(m.C, m.land)
             IN  [C |-> f.C, out |-> f.outputs, err |-> FALSE,
                  a |-> bits_a, b |-> bits_b, land |-> m.land]

(***************************************************************************)
(* The caller: one netlist shared by a chain of calls.                     *)
(***************************************************************************)
Arr(x) ==
    IF x = "a" THEN va ELSE IF x = "b" THEN vb ELSE IF x = "out" THEN out ELSE <<>>

NoCall ==
    [op |-> "none", xa |-> "none", xb |-> "none", a |-> <<>>, b |-> <<>>,
     aAfter |-> <<>>, bAfter |-> <<>>, land |-> <<>>, C0 |-> <<>>, err |-> FALSE,
     proper |-> TRUE]

Init ==
    /\ C = <<>>
    /\ va = <<>>
    /\ vb = <<>>
    /\ out = <<>>
    /\ call = NoCall
    /\ ncalls = 0
    /\ pc = "idle"
    /\ bits = <<>>
    /\ outputs = <<>>
    /\ done = <<>>

\* A bit argument as the operators expect it: a non-empty array of wire
\* indices of the netlist.
ProperArg(arr) ==
    Len(arr) >= 1 /\ \A i \in 1 .. Len(arr) : IsWire(C, arr[i])

CanCall == pc = "idle" /\ ncalls < MaxCalls

\* What a finished call r of operator op on the arrays named x and y leaves.
Returned(op, x, y, r) ==
    /\ Len(r.C) <= MaxGates
    /\ C' = r.C
    /\ va' = IF x = "a" THEN r.a ELSE IF y = "a" THEN r.b ELSE va
    /\ vb' = IF x = "b" THEN r.a ELSE IF y = "b" THEN r.b ELSE vb
    /\ out' = IF ~r.err THEN r.out
              ELSE IF x = "out" THEN r.a ELSE IF y = "out" THEN r.b ELSE out
    /\ call' = [op |-> op, xa |-> x, xb |-> y, a |-> Arr(x), b |-> Arr(y),
                aAfter |-> r.a, bAfter |-> r.b, land |-> r.land,
                C0 |-> C, err |-> r.err,
                proper |-> call.proper /\ ProperArg(Arr(x))
                           /\ (y = "none" \/ ProperArg(Arr(y)))]
    /\ ncalls' = ncalls + 1

Inputs(name, n) ==
    /\ CanCall
    /\ LET r == inputs(C, name, n) IN
        /\ Len(r.C) <= MaxGates
        /\ Cardinality({i \in 1 .. Len(r.C) : Len(r.C[i]) = 1}) <= MaxInputs
        /\ C' = r.C
        /\ va' = IF name = "a" THEN r.out ELSE va
        /\ vb' = IF name = "b" THEN r.out ELSE vb
        /\ call' = [NoCall EXCEPT !.op = "inputs", !.C0 = C,
                                  !.proper = call.proper]
        /\ ncalls' = ncalls + 1
    /\ UNCHANGED <<out, pc, bits, outputs, done>>

Adder(x, y) ==
    /\ CanCall
    /\ Returned("adder", x, y, adder(C, Arr(x), Arr(y)))
    /\ UNCHANGED <<pc, bits, outputs, done>>

Popcount(x) ==
    /\ CanCall
    /\ Returned("popcount", x, "none", popcount(C, Arr(x)))
    /\ UNCHANGED <<pc, bits, outputs, done>>

Multiplier(x, y) ==
    /\ CanCall
    /\ Returned("multiplier", x, y, multiplier(C, Arr(x), Arr(y)))
    /\ UNCHANGED <<pc, bits, outputs, done>>

\* compress(C, [[...x], [...y]]) called on its own, on fresh column arrays.
Compress(x, y) ==
    /\ CanCall
    /\ LET f == compress(C, <<Arr(x), Arr(y)>>) IN
        Returned("compress", x, y,
                 [C |-> f.C, out |-> f.outputs, err |-> FALSE,
                  a |-> Arr(x), b |-> Arr(y), land |-> <<Arr(x), Arr(y)>>])
    /\ UNCHANGED <<pc, bits, outputs, done>>

Next ==
    \/ \E name \in Names, n \in 1 .. MaxWidth : Inputs(name, n)
    \/ \E x \in Regs, y \in Regs : Adder(x, y)
    \/ \E x \in Regs : Popcount(x)
    \/ \E x \in Regs, y \in Regs : Multiplier(x, y)
    \/ \E x \in Names, y \in Names : Compress(x, y)

Spec == Init /\ [][Next]_vars

(***************************************************************************)
(* The loop of compress followed one iteration at a time, on a netlist of  *)
(* primary inputs and a list of columns of any lengths (empty columns      *)
(* included) over them.                                                    *)
(***************************************************************************)
RECURSIVE SumLens(_)
SumLens(lens) == IF lens = <<>> THEN 0 ELSE Head(lens) + SumLens(Tail(lens))

\* columns of the given lengths, filled with the wires of a netlist of n
\* gates taken in turn
ColumnsOf(lens, n) ==
    [k \in 1 .. Len(lens) |->
        [i \in 1 .. lens[k] |-> (SumLens(SubSeq(lens, 1, k - 1)) + i - 1) % n]]

LoopInit ==
    /\ C = inputs(<<>>, "a", MaxWidth).C
    /\ va = inputs(<<>>, "a", MaxWidth).out
    /\ vb = <<>>
    /\ out = <<>>
    /\ call = NoCall
    /\ ncalls = 0
    /\ pc = "idle"
    /\ bits = <<>>
    /\ outputs = <<>>
    /\ done = <<>>

\* entry of compress(C, bits): const outputs = []
LoopEnter(lens) ==
    /\ pc = "idle"
    /\ ncalls = 0
    /\ bits' = ColumnsOf(lens, Len(C))
    /\ call' = [NoCall EXCEPT !.op = "compress", !.land = bits', !.C0 = C]
    /\ outputs' = <<>>
    /\ done' = <<>>
    /\ pc' = "compress"
    /\ UNCHANGED <<C, va, vb, out, ncalls>>

\* one iteration of while (bits.length > 0)
LoopStep ==
    /\ pc = "compress"
    /\ Len(bits) > 0
    /\ \E st \in {CompressStep([C |-> C, bits |-> bits,
                                outputs |-> outputs, done |-> done])} :
           /\ C' = st.C
           /\ bits' = st.bits
           /\ outputs' = st.outputs
           /\ done' = st.done
    /\ UNCHANGED <<va, vb, out, call, ncalls, pc>>

\* return outputs
LoopReturn ==
    /\ pc = "compress"
    /\ Len(bits) = 0
    /\ out' = outputs
    /\ pc' = "idle"
    /\ ncalls' = ncalls + 1
    /\ UNCHANGED <<C, va, vb, call, bits, outputs, done>>

LoopNext ==
    \/ \E k \in 0 .. MaxCols : \E lens \in [1 .. k -> 0 .. MaxColLen] :
          LoopEnter(lens)
    \/ LoopStep
    \/ LoopReturn

LiveSpec ==
    LoopInit /\ [][LoopNext]_vars /\ WF_vars(LoopStep) /\ WF_vars(LoopReturn)

(***************************************************************************)
(* Reading a netlist: gates are evaluated in index order.  A zero-operand  *)
(* gate takes the value asg gives it, a one-operand gate the value of its  *)
(* operand, a two-operand gate xor / and / or of its operands.  An operand *)
(* that is no wire reads as 0.                                             *)
(***************************************************************************)
OperandVal(prev, w) == IF w \in 0 .. (Len(prev) - 1) THEN prev[w + 1] ELSE 0

GateVal(g, prev, asg, idx) ==
    IF Len(g) = 1 THEN asg[idx]
    ELSE IF Len(g) = 2 THEN OperandVal(prev, g[2])
    ELSE LET x == OperandVal(prev, g[2])
             y == OperandVal(prev, g[3])
         IN  IF g[1] = "xor" THEN (x + y) % 2
             ELSE IF g[1] = "and" THEN x * y
             ELSE IF x + y >= 1 THEN 1 ELSE 0

RECURSIVE EvalUpTo(_, _, _)
EvalUpTo(net, asg, k) ==
    IF k = 0 THEN <<>>
    ELSE LET prev == EvalUpTo(net, asg, k - 1)
         IN  Append(prev, GateVal(net[k], prev, asg, k - 1))

Eval(net, asg) == EvalUpTo(net, asg, Len(net))

PrimaryInputs(net) == {w \in 0 .. (Len(net) - 1) : Len(net[w + 1]) = 1}

Assignments(net) == [PrimaryInputs(net) -> {0, 1}]

RECURSIVE Pow2(_)
Pow2(k) == IF k = 0 THEN 1 ELSE 2 * Pow2(k - 1)

\* value of the wires ws read LSB-first
RECURSIVE Value(_, _)
Value(ws, vals) ==
    IF ws = <<>> THEN 0 ELSE vals[Head(ws) + 1] + 2 * Value(Tail(ws), vals)

\* number of wires of ws that carry 1
RECURSIVE Ones(_, _)
Ones(ws, vals) ==
    IF ws = <<>> THEN 0 ELSE vals[Head(ws) + 1] + Ones(Tail(ws), vals)

\* sum over the columns of (wires carrying 1) * 2^(column index)
RECURSIVE ColumnsValue(_, _)
ColumnsValue(cols, vals) ==
    IF cols = <<>> THEN 0
    ELSE Ones(Head(cols), vals) + 2 * ColumnsValue(Tail(cols), vals)

AllWires(net, ws) == \A i \in 1 .. Len(ws) : IsWire(net, ws[i])

\* least k with 2^k >= m
RECURSIVE CeilLog2From(_, _)
CeilLog2From(m, k) == IF Pow2(k) >= m THEN k ELSE CeilLog2From(m, k + 1)

CeilLog2(m) == CeilLog2From(m, 0)

Operands(g) == {g[i] : i \in 2 .. Len(g)}

TwoOperandGates(net) == {i \in 1 .. Len(net) : Len(net[i]) = 3}

XorGates(net) == {i \in 1 .. Len(net) : net[i][1] = "xor"}

(***************************************************************************)
(* Claims                                                                  *)
(***************************************************************************)

\* C1 (compressor value-preservation): whenever compress has run on columns
\* that each hold at least one wire of the netlist, then for every 0/1
\* assignment to the primary inputs the returned sequence read LSB-first
\* has the value  sum over the input wires of value * 2^(column index).
C1_CompressValue ==
    (/\ call.op \in {"compress", "adder", "popcount", "multiplier"}
     /\ ~call.err
     /\ \A k \in 1 .. Len(call.land) :
            Len(call.land[k]) >= 1 /\ AllWires(C, call.land[k]))
    => \A asg \in Assignments(C) :
          LET vals == Eval(C, asg)
          IN  /\ AllWires(C, out)
              /\ Value(out, vals) = ColumnsValue(call.land, vals)

\* compress was called on its own with three or more wires in column 0 and
\* two or more in column 1, all primary inputs, and some assignment gives
\* the columns a value of 5 or more.
C1_Witness ==
    /\ call.op = "compress"
    /\ Len(call.land) = 2
    /\ Len(call.land[1]) >= 3
    /\ Len(call.land[2]) >= 2
    /\ \A k \in 1 .. 2 : \A i \in 1 .. Len(call.land[k]) :
           call.land[k][i] \in PrimaryInputs(C)
    /\ Len(out) = 3
    /\ \E asg \in Assignments(C) : Value(out, Eval(C, asg)) >= 5

\* C2 (adder round-trip): adder on two n-wire vectors, n >= 1, returns
\* exactly n + 1 wires whose value is the value of the first vector plus
\* the value of the second, for every assignment.
C2_AdderSum ==
    (/\ call.op = "adder"
     /\ ~call.err
     /\ Len(call.a) >= 1
     /\ AllWires(call.C0, call.a)
     /\ AllWires(call.C0, call.b))
    => /\ Len(out) = Len(call.a) + 1
       /\ AllWires(C, out)
       /\ \A asg \in Assignments(C) :
             LET vals == Eval(C, asg)
             IN  Value(out, vals) = Value(call.a, vals) + Value(call.b, vals)

\* adder ran on two distinct vectors of two or more primary inputs each and
\* some assignment makes the carry-out bit 1.
C2_Witness ==
    /\ call.op = "adder"
    /\ ~call.err
    /\ Len(call.a) >= 2
    /\ call.xa = "a" /\ call.xb = "b"
    /\ \A i \in 1 .. Len(call.a) :
           call.a[i] \in PrimaryInputs(C) /\ call.b[i] \in PrimaryInputs(C)
    /\ \E asg \in Assignments(C) :
           Eval(C, asg)[out[Len(out)] + 1] = 1

\* C3 (multiplier correctness): multiplier on an n-wire and an m-wire
\* vector, n, m >= 1, returns wires whose value is the product of the
\* values of the two vectors, for every assignment.
C3_MultiplierProduct ==
    (/\ call.op = "multiplier"
     /\ ~call.err
     /\ Len(call.a) >= 1
     /\ Len(call.b) >= 1
     /\ AllWires(call.C0, call.a)
     /\ AllWires(call.C0, call.b))
    => /\ AllWires(C, out)
       /\ \A asg \in Assignments(C) :
             LET vals == Eval(C, asg)
             IN  Value(out, vals) = Value(call.a, vals) * Value(call.b, vals)

\* multiplier ran on two vectors of two primary inputs each and some
\* assignment gives the product 9.
C3_Witness ==
    /\ call.op = "multiplier"
    /\ ~call.err
    /\ Len(call.a) = 2 /\ Len(call.b) = 2
    /\ \A i \in 1 .. 2 :
           call.a[i] \in PrimaryInputs(C) /\ call.b[i] \in PrimaryInputs(C)
    /\ \E asg \in Assignments(C) : Value(out, Eval(C, asg)) = 9

\* C4 (popcount correctness): popcount on n >= 1 wires returns exactly
\* ceil(log2(n + 1)) wires whose value is the number of input wires that
\* carry 1, for every assignment.
C4_PopcountCount ==
    (/\ call.op = "popcount"
     /\ Len(call.a) >= 1
     /\ AllWires(call.C0, call.a))
    => /\ Len(out) = CeilLog2(Len(call.a) + 1)
       /\ AllWires(C, out)
       /\ \A asg \in Assignments(C) :
             LET vals == Eval(C, asg)
             IN  Value(out, vals) = Ones(call.a, vals)

\* popcount ran on four or more primary inputs, returned three wires, and
\* some assignment gives the count 3.
C4_Witness ==
    /\ call.op = "popcount"
    /\ Len(call.a) >= 4
    /\ \A i \in 1 .. Len(call.a) : call.a[i] \in PrimaryInputs(C)
    /\ Len(out) = 3
    /\ \E asg \in Assignments(C) : Value(out, Eval(C, asg)) = 3

\* C5 (acyclicity): as long as every bit argument of every call was a
\* non-empty array of wires of the netlist, every operand of every gate is
\* an integer in [0, own index), and every wire index the caller holds is
\* an index of the netlist.
C5_Acyclic ==
    call.proper
    => /\ \A i \in 1 .. Len(C) : \A w \in Operands(C[i]) : w \in 0 .. (i - 2)
       /\ AllWires(C, out)
       /\ AllWires(C, va)
       /\ AllWires(C, vb)

\* a multiplier call followed proper calls and appended gates, among them a
\* fan-out duplicate and a two-operand gate.
C5_Witness ==
    /\ call.proper
    /\ call.op = "multiplier"
    /\ Len(C) > Len(call.C0)
    /\ \E i \in 1 .. Len(C) : Len(C[i]) = 2
    /\ \E i \in 1 .. Len(C) : Len(C[i]) = 3 /\ C[i][1] = "or"

\* C6 (cost accounting): count_xaig is the number of gates with exactly two
\* operands; count_aig is count_xaig plus 2 for every two-operand xor gate;
\* so count_aig >= count_xaig, with equality exactly when no gate is tagged
\* xor.
C6_Costs ==
    /\ count_xaig(C) = Cardinality(TwoOperandGates(C))
    /\ count_aig(C) = count_xaig(C)
                      + 2 * Cardinality(TwoOperandGates(C) \cap XorGates(C))
    /\ count_aig(C) >= count_xaig(C)
    /\ (count_aig(C) = count_xaig(C)) <=> (XorGates(C) = {})

\* the netlist holds primary inputs, a fan-out duplicate tagged xor, and
\* two-operand xor, and, or gates.
C6_Witness ==
    /\ \E i \in 1 .. Len(C) : Len(C[i]) = 1
    /\ \E i \in 1 .. Len(C) : Len(C[i]) = 2 /\ C[i][1] = "xor"
    /\ \E i \in 1 .. Len(C) : Len(C[i]) = 3 /\ C[i][1] = "xor"
    /\ \E i \in 1 .. Len(C) : Len(C[i]) = 3 /\ C[i][1] = "and"
    /\ \E i \in 1 .. Len(C) : Len(C[i]) = 3 /\ C[i][1] = "or"
    /\ count_aig(C) > count_xaig(C)

\* C7 (adder precondition failure): adder on arrays of different lengths
\* fails, and the netlist after the call is the netlist before it.
C7_AdderMismatch ==
    (call.op = "adder" /\ Len(call.a) # Len(call.b))
    => (call.err /\ C = call.C0)

\* adder failed on arrays of different lengths, on a netlist that already
\* holds gates.
C7_Witness ==
    /\ call.op = "adder"
    /\ call.err
    /\ Len(call.a) >= 1 /\ Len(call.b) >= 1
    /\ Len(call.a) # Len(call.b)
    /\ Len(C) >= 2

\* C8 (empty columns): when compress is given columns of wires of the
\* netlist among which some are empty, every entry of the returned sequence
\* is the index of a gate of the netlist (an empty column contributes no
\* entry and carries nothing upward).
C8_EmptyColumnAbsent ==
    (/\ call.op \in {"compress", "popcount"}
     /\ \A k \in 1 .. Len(call.land) : AllWires(C, call.land[k]))
    => AllWires(C, out)

\* C9 (termination): once the loop of compress has been entered on a finite
\* list of finite columns, it reaches an empty working list and returns.
C9_Terminates == (pc = "compress") ~> (pc = "idle")

\* compress has returned after running on two columns of three wires each,
\* having made full-adder and half-adder steps and created two columns of
\* higher weight on the fly; what it returns is what the function compress
\* computes.
C9_Witness ==
    /\ pc = "idle"
    /\ Len(call.land) = 2
    /\ Len(call.land[1]) = 3
    /\ Len(call.land[2]) = 3
    /\ Len(out) = 4
    /\ \E i \in 1 .. Len(C) : C[i][1] = "or"
    /\ out = compress(call.C0, call.land).outputs
    /\ C = compress(call.C0, call.land).C

\* C10 (caller arguments are not mutated): after adder, popcount or
\* multiplier returns from a call on non-empty arrays of wires of the
\* netlist, each array the caller passed holds the same wire indices in the
\* same order as before the call.
C10_ArgsNotMutated ==
    (call.op \in {"adder", "popcount", "multiplier"} /\ ~call.err
     /\ call.proper)
    => (call.aAfter = call.a /\ call.bAfter = call.b)

====
